---- MODULE Spec2Model ----
(***************************************************************************)
(* Character n-gram language model (src/src/lm/ngram_model.py), its        *)
(* training/inference driver (src/src/myprogram.py) and the line loader    *)
(* (src/src/lm/data_io.py).                                                *)
(*                                                                         *)
(* Representation.                                                         *)
(*   - a character is a one-character string; the non-ASCII fallback       *)
(*     symbols are written by their code point ("u3002" is U+3002);        *)
(*   - a text (Python str) is a sequence of characters; the value None is  *)
(*     NoneInput;                                                          *)
(*   - a Counter / dict is a sequence of [char, count] records in          *)
(*     insertion order (Python dicts iterate in insertion order, and       *)
(*     most_common / sorted break ties by that order);                     *)
(*   - context_counts is a sequence of [context, counts] records in        *)
(*     insertion order;                                                    *)
(*   - a float is an exact fraction <<numerator, denominator>>; a score    *)
(*     table is a Counter of numerators over one common denominator;      *)
(*   - the iteration order of a Python set of str depends on the           *)
(*     process's string-hash seed: hashseed picks the order.               *)
(***************************************************************************)
EXTENDS Integers, Sequences, FiniteSets, TLC

VARIABLES
    model,       \* the CharNGramLanguageModel instance of the session
    checkpoint,  \* the payload stored in work_dir/model.checkpoint, or NoCheckpoint
    saved,       \* history: the instance (and its training history) save() wrote
    fits,        \* history: number of fit calls the instance's tables have seen
    trained,     \* history: the raw lines passed to those fit calls, in order
    hashseed,    \* the process's string-hash seed (set iteration order)
    last         \* the last operation: its name, its arguments and what it returned

vars == <<model, checkpoint, saved, fits, trained, hashseed, last>>

----------------------------------------------------------------------------
(* Bounds of the model *)

MaxFits == 1

MaxK == 10

\* the number of successive fit calls on one instance in SpecRefit
MaxRefits == 2

----------------------------------------------------------------------------
(* Program constants *)

DefaultNgramOrder == 6

DefaultLaplaceAlpha == <<1, 1>>

DefaultMaxCharsPerContext == 64

DefaultMinContextCount == 3

DefaultMaxContexts == 1000000

DefaultKnDiscount == <<3, 4>>

DEFAULT_CHARS == <<" ", ".", ",", "u3002", "u060C", "u0964", "uFF0C", "u30FB", "-">>

LineTerminators == {"\n", "\r"}

Whitespace == {" ", "\n", "\r", "\t"}

NoneInput == <<"None">>

NoCheckpoint == [absent |-> TRUE]

\* the characters of the training and test texts of the model, in code-point order
Alphabet == <<" ", "a", "b", "c", "d", "e", "g", "h", "o", "t">>

----------------------------------------------------------------------------
(* Sequences, ordered dicts and Counters *)

Range(s) == {s[i] : i \in 1..Len(s)}

Min(a, b) == IF a < b THEN a ELSE b

Max(a, b) == IF a > b THEN a ELSE b

\* Python s[a:b] for 0 <= a, 0-based and end-exclusive
Slice(s, a, b) == SubSeq(s, a + 1, Min(b, Len(s)))

\* Python s[:n] for n >= 0
Prefix(s, n) == SubSeq(s, 1, Min(n, Len(s)))

\* sorted(..., reverse=True) is stable: the indices of w ordered by descending
\* weight, equal weights in their original order
StableOrderDesc(w) ==
    LET n == Len(w)
        rank == [i \in 1..n |->
                    Cardinality({j \in 1..n : w[j] > w[i] \/ (w[j] = w[i] /\ j < i)}) + 1]
    IN  [p \in 1..n |-> CHOOSE i \in 1..n : rank[i] = p]

Keys(counter) == [i \in 1..Len(counter) |-> counter[i].char]

KeySet(counter) == {counter[i].char : i \in 1..Len(counter)}

Has(counter, c) == \E i \in 1..Len(counter) : counter[i].char = c

\* Counter.__getitem__ / dict.get(c, 0)
Get(counter, c) ==
    IF Has(counter, c)
    THEN counter[CHOOSE i \in 1..Len(counter) : counter[i].char = c].count
    ELSE 0

\* counter[c] += 1
Inc(counter, c) ==
    IF Has(counter, c)
    THEN LET i == CHOOSE j \in 1..Len(counter) : counter[j].char = c
         IN  [counter EXCEPT ![i].count = @ + 1]
    ELSE Append(counter, [char |-> c, count |-> 1])

RECURSIVE SumCounts(_)
\* sum(counts.values())
SumCounts(counter) ==
    IF counter = <<>> THEN 0 ELSE Head(counter).count + SumCounts(Tail(counter))

\* sorted(counter.items(), key=count, reverse=True)
SortedItems(counter) ==
    LET order == StableOrderDesc([i \in 1..Len(counter) |-> counter[i].count])
    IN  [p \in 1..Len(counter) |-> counter[order[p]]]

\* Counter.most_common(n): heapq.nlargest(n, items), which is the first n of
\* the stable descending sort, and empty for n <= 0
MostCommon(counter, n) ==
    IF n <= 0 THEN <<>> ELSE Prefix(SortedItems(counter), n)

HasContext(cc, context) == \E i \in 1..Len(cc) : cc[i].context = context

\* context_counts.get(context): None is the empty Counter here, both are falsy
GetContext(cc, context) ==
    IF HasContext(cc, context)
    THEN cc[CHOOSE i \in 1..Len(cc) : cc[i].context = context].counts
    ELSE <<>>

\* self.context_counts[context][next_char] += 1 on a defaultdict(Counter)
IncContext(cc, context, c) ==
    IF HasContext(cc, context)
    THEN LET i == CHOOSE j \in 1..Len(cc) : cc[j].context = context
         IN  [cc EXCEPT ![i].counts = Inc(@, c)]
    ELSE Append(cc, [context |-> context, counts |-> Inc(<<>>, c)])

----------------------------------------------------------------------------
(* Text normalizer (lm/text_utils.py) *)

IsStr(text) == text # NoneInput

RECURSIVE Squeeze(_)
\* newlines and runs of whitespace become one space
Squeeze(s) ==
    IF s = <<>> THEN <<>>
    ELSE LET rest == Squeeze(Tail(s))
         IN  IF Head(s) \in Whitespace
             THEN IF rest # <<>> /\ Head(rest) = " " THEN rest ELSE <<" ">> \o rest
             ELSE <<Head(s)>> \o rest

Strip(s) ==
    LET a == IF s # <<>> /\ Head(s) = " " THEN Tail(s) ELSE s
    IN  IF a # <<>> /\ a[Len(a)] = " " THEN SubSeq(a, 1, Len(a) - 1) ELSE a

\* normalize_text(text) for a str
NormalizeText(text) == Strip(Squeeze(text))

RECURSIVE RStripNewline(_)
\* line.rstrip("\n")
RStripNewline(s) ==
    IF s # <<>> /\ s[Len(s)] = "\n" THEN RStripNewline(SubSeq(s, 1, Len(s) - 1)) ELSE s

----------------------------------------------------------------------------
(* CharNGramLanguageModel *)

\* __init__
Construct(order, alpha, max_chars, min_count, max_ctx, discount) ==
    [ngram_order           |-> order,
     laplace_alpha         |-> alpha,
     max_chars_per_context |-> max_chars,
     min_context_count     |-> min_count,
     max_contexts          |-> max_ctx,
     kn_discount           |-> discount,
     context_counts        |-> <<>>,
     unigram               |-> <<>>,
     continuation_counts   |-> <<>>,
     total_bigram_types    |-> 0,
     default_chars         |-> DEFAULT_CHARS]

RECURSIVE CountContexts(_, _, _, _)
\* for left in range(left, idx): context_counts[sequence[left:idx]][next_char] += 1
CountContexts(cc, sequence, idx, left) ==
    IF left >= idx THEN cc
    ELSE LET context == Slice(sequence, left, idx)
             next_char == sequence[idx + 1]
         IN  CountContexts(IF context # <<>> THEN IncContext(cc, context, next_char) ELSE cc,
                           sequence, idx, left + 1)

\* CountPosition counting one character more of left context than ngram_order - 1
CountPositionLong(t, sequence, max_context) ==
    LET idx       == t.idx
        next_char == sequence[idx + 1]
        left_char == sequence[idx]
        pair      == <<left_char, next_char>>
        fresh     == idx > 0 /\ left_char \notin LineTerminators
                     /\ pair \notin t.unique_bigrams
    IN  IF next_char \in LineTerminators THEN [t EXCEPT !.idx = idx + 1]
        ELSE [idx                 |-> idx + 1,
              unigram             |-> Inc(t.unigram, next_char),
              context_counts      |-> CountContexts(t.context_counts, sequence, idx,
                                                    Max(0, idx - max_context - 1)),
              continuation_counts |-> IF fresh THEN Inc(t.continuation_counts, next_char)
                                      ELSE t.continuation_counts,
              unique_bigrams      |-> IF fresh THEN t.unique_bigrams \cup {pair}
                                      ELSE t.unique_bigrams]

\* CountPosition counting every occurrence of a pair, not only its first
CountPositionEveryPair(t, sequence, max_context) ==
    LET idx       == t.idx
        next_char == sequence[idx + 1]
        left_char == sequence[idx]
        pair      == <<left_char, next_char>>
        fresh     == idx > 0 /\ left_char \notin LineTerminators
    IN  IF next_char \in LineTerminators THEN [t EXCEPT !.idx = idx + 1]
        ELSE [idx                 |-> idx + 1,
              unigram             |-> Inc(t.unigram, next_char),
              context_counts      |-> CountContexts(t.context_counts, sequence, idx,
                                                    Max(0, idx - max_context)),
              continuation_counts |-> IF fresh THEN Inc(t.continuation_counts, next_char)
                                      ELSE t.continuation_counts,
              unique_bigrams      |-> IF fresh THEN t.unique_bigrams \cup {pair}
                                      ELSE t.unique_bigrams]

\* the body of fit's loop over enumerate(sequence), idx 0-based;
\* t = [idx, unigram, context_counts, continuation_counts, unique_bigrams]
CountPosition(t, sequence, max_context) ==
    LET idx       == t.idx
        next_char == sequence[idx + 1]
        left_char == sequence[idx]
        pair      == <<left_char, next_char>>
        fresh     == idx > 0 /\ left_char \notin LineTerminators
                     /\ pair \notin t.unique_bigrams
    IN  IF next_char \in LineTerminators THEN [t EXCEPT !.idx = idx + 1]
        ELSE [idx                 |-> idx + 1,
              unigram             |-> Inc(t.unigram, next_char),
              context_counts      |-> CountContexts(t.context_counts, sequence, idx,
                                                    Max(0, idx - max_context)),
              continuation_counts |-> IF fresh THEN Inc(t.continuation_counts, next_char)
                                      ELSE t.continuation_counts,
              unique_bigrams      |-> IF fresh THEN t.unique_bigrams \cup {pair}
                                      ELSE t.unique_bigrams]

RECURSIVE CountSequence(_, _, _)
\* fit's loop over enumerate(sequence), from position t.idx on
CountSequence(t, sequence, max_context) ==
    IF t.idx >= Len(sequence) THEN t
    ELSE CountSequence(CountPosition(t, sequence, max_context), sequence, max_context)

RECURSIVE CountLines(_, _, _)
\* fit's loop over lines
CountLines(t, lines, max_context) ==
    IF lines = <<>> THEN t
    ELSE CountLines(CountSequence([t EXCEPT !.idx = 0], NormalizeText(Head(lines)),
                                  max_context),
                    Tail(lines), max_context)

\* _trim_context_tables on table cc
TrimContextTables(cc, min_context_count, max_contexts, max_chars_per_context) ==
    LET kept   == SelectSeq(cc, LAMBDA e : ~(SumCounts(e.counts) < min_context_count))
        order  == StableOrderDesc([i \in 1..Len(kept) |-> SumCounts(kept[i].counts)])
        sorted == [p \in 1..Len(kept) |-> kept[order[p]]]
        ranked == IF max_contexts > 0 THEN Prefix(sorted, max_contexts) ELSE sorted
        cut    == [p \in 1..Len(ranked) |->
                     [context |-> ranked[p].context,
                      counts  |-> MostCommon(ranked[p].counts, max_chars_per_context)]]
    IN  SelectSeq(cut, LAMBDA e : e.counts # <<>>)

RECURSIVE Dedup(_, _)
\* the seen/merged loop of _refresh_default_chars
Dedup(chars, seen) ==
    IF chars = <<>> THEN <<>>
    ELSE IF Head(chars) \in seen THEN Dedup(Tail(chars), seen)
         ELSE <<Head(chars)>> \o Dedup(Tail(chars), seen \cup {Head(chars)})

\* RefreshDefaultChars without the seen-set
RefreshDefaultCharsNoDedup(unigram, max_chars_per_context, default_chars) ==
    IF unigram = <<>> THEN default_chars
    ELSE LET frequent_defaults ==
                 SelectSeq(Keys(MostCommon(unigram, max_chars_per_context)),
                           LAMBDA c : c \notin LineTerminators)
         IN  frequent_defaults \o default_chars

\* _refresh_default_chars
RefreshDefaultChars(unigram, max_chars_per_context, default_chars) ==
    IF unigram = <<>> THEN default_chars
    ELSE LET frequent_defaults ==
                 SelectSeq(Keys(MostCommon(unigram, max_chars_per_context)),
                           LAMBDA c : c \notin LineTerminators)
         IN  Dedup(frequent_defaults \o default_chars, {})

\* the table handed to _trim_context_tables by fit(lines) on instance m
RawCounts(m, lines) ==
    CountLines([idx                 |-> 0,
                unigram             |-> m.unigram,
                context_counts      |-> m.context_counts,
                continuation_counts |-> m.continuation_counts,
                unique_bigrams      |-> {}],
               lines, m.ngram_order - 1)

\* fit(lines) on instance m
FitModel(m, lines) ==
    LET t == RawCounts(m, lines)
    IN  [m EXCEPT
            !.unigram             = t.unigram,
            !.continuation_counts = t.continuation_counts,
            !.total_bigram_types  = Cardinality(t.unique_bigrams),
            !.context_counts      = TrimContextTables(t.context_counts, m.min_context_count,
                                                      m.max_contexts, m.max_chars_per_context),
            !.default_chars       = RefreshDefaultChars(t.unigram, m.max_chars_per_context,
                                                        m.default_chars)]

----------------------------------------------------------------------------
(* Scoring *)

CharIndex(c) == CHOOSE i \in 1..Len(Alphabet) : Alphabet[i] = c

\* the order in which a Python set of characters iterates under hash seed `seed`
SetOrder(S, seed) ==
    LET slot == [c \in S |-> (CharIndex(c) + seed) % Len(Alphabet)]
        rank == [c \in S |-> Cardinality({d \in S : slot[d] < slot[c]}) + 1]
    IN  [p \in 1..Cardinality(S) |-> CHOOSE c \in S : rank[c] = p]

\* KnUnigramScores always taking the unigram branch
KnUnigramScoresUnigramOnly(m) ==
    LET an == m.laplace_alpha[1]
        ad == m.laplace_alpha[2]
        vocab_size == Max(1, Len(m.unigram))
        scored == SelectSeq(m.unigram, LAMBDA e : e.char \notin LineTerminators)
    IN  [den   |-> SumCounts(m.unigram) * ad + an * vocab_size,
         items |-> [i \in 1..Len(scored) |->
                      [char |-> scored[i].char, count |-> scored[i].count * ad + an]]]

\* _kn_unigram_scores: scores[char] = items[char] / den, alpha = an / ad
KnUnigramScores(m) ==
    LET an == m.laplace_alpha[1]
        ad == m.laplace_alpha[2]
        source == IF m.total_bigram_types > 0 THEN m.continuation_counts ELSE m.unigram
        mass == IF m.total_bigram_types > 0 THEN m.total_bigram_types
                ELSE SumCounts(m.unigram)
        vocab_size == Max(1, Len(source))
        scored == SelectSeq(source, LAMBDA e : e.char \notin LineTerminators)
    IN  [den   |-> mass * ad + an * vocab_size,
         items |-> [i \in 1..Len(scored) |->
                      [char |-> scored[i].char, count |-> scored[i].count * ad + an]]]

\* one pass of predict_top_k's loop body for a stored, non-empty entry:
\* level[c] = max(count - D, 0) / total, lambda = D * n_types / total,
\* blended[c] = level.get(c, 0) + lambda * scores.get(c, 0), D = dn / dd
Blend(scores, next_char_counts, discount, seed) ==
    LET dn == discount[1]
        dd == discount[2]
        total == SumCounts(next_char_counts)
        n_types == Len(next_char_counts)
        stored == SelectSeq(next_char_counts, LAMBDA e : e.char \notin LineTerminators)
        level == [i \in 1..Len(stored) |->
                    [char |-> stored[i].char,
                     count |-> Max(stored[i].count * dd - dn, 0)]]
        chars == SetOrder(KeySet(level) \cup KeySet(scores.items), seed)
    IN  [den   |-> dd * total * scores.den,
         items |-> [i \in 1..Len(chars) |->
                      [char  |-> chars[i],
                       count |-> Get(level, chars[i]) * scores.den
                                 + dn * n_types * Get(scores.items, chars[i])]]]

RECURSIVE BackOff(_, _, _, _, _)
\* predict_top_k's loop over ctx_len in range(ctx_len, limit + 1)
BackOff(m, scores, sequence, ctx_len, seed) ==
    IF ctx_len > Min(m.ngram_order - 1, Len(sequence)) THEN scores
    ELSE LET context == SubSeq(sequence, Len(sequence) - ctx_len + 1, Len(sequence))
             next_char_counts == GetContext(m.context_counts, context)
             skip == next_char_counts = <<>> \/ SumCounts(next_char_counts) <= 0
         IN  BackOff(m,
                     IF skip THEN scores
                     ELSE Blend(scores, next_char_counts, m.kn_discount, seed),
                     sequence, ctx_len + 1, seed)

\* the final blended scores of predict_top_k for a str
FinalScores(m, text, seed) == BackOff(m, KnUnigramScores(m), NormalizeText(text), 1, seed)

\* RankedGuesses iterating scores.items() instead of scores.most_common()
RankedGuessesUnsorted(scores, k) ==
    LET ranked == SelectSeq(Keys(scores.items), LAMBDA c : c \notin LineTerminators)
    IN  IF k >= 1 THEN Prefix(ranked, k) ELSE ranked

\* the loop over scores.most_common(): it stops once k characters are taken
RankedGuesses(scores, k) ==
    LET ranked == SelectSeq(Keys(SortedItems(scores.items)),
                            LAMBDA c : c \notin LineTerminators)
    IN  IF k >= 1 THEN Prefix(ranked, k) ELSE ranked

RECURSIVE AppendDefaultsNoDedup(_, _, _)
\* AppendDefaults without the test `char not in guesses`
AppendDefaultsNoDedup(guesses, default_chars, k) ==
    IF default_chars = <<>> THEN guesses
    ELSE LET char == Head(default_chars)
             next == IF char \notin LineTerminators
                     THEN Append(guesses, char) ELSE guesses
         IN  IF Len(next) = k THEN next
             ELSE AppendDefaultsNoDedup(next, Tail(default_chars), k)

RECURSIVE AppendDefaults(_, _, _)
\* the loop over self.default_chars
AppendDefaults(guesses, default_chars, k) ==
    IF default_chars = <<>> THEN guesses
    ELSE LET char == Head(default_chars)
             next == IF char \notin Range(guesses) /\ char \notin LineTerminators
                     THEN Append(guesses, char) ELSE guesses
         IN  IF Len(next) = k THEN next ELSE AppendDefaults(next, Tail(default_chars), k)

RECURSIVE PadSpaces(_, _)
\* while len(guesses) < k: guesses.append(" ")
PadSpaces(guesses, k) ==
    IF Len(guesses) < k THEN PadSpaces(Append(guesses, " "), k) ELSE guesses

\* PredictTopK without the loop over self.default_chars
PredictTopKNoFallback(m, text, k, seed) ==
    Prefix(PadSpaces(RankedGuesses(FinalScores(m, text, seed), k), k), k)

\* predict_top_k(text, k) for a str and k >= 0
PredictTopK(m, text, k, seed) ==
    LET ranked  == RankedGuesses(FinalScores(m, text, seed), k)
        guesses == IF Len(ranked) < k THEN AppendDefaults(ranked, m.default_chars, k)
                   ELSE ranked
    IN  Prefix(PadSpaces(guesses, k), k)

\* whether predict_top_k(text, k) raises: normalize_text rejects a non-str
PredictRaises(m, text, k) == ~IsStr(text)

\* FallbackTopK without the padding loop
FallbackTopKNoPad(m, k) == Prefix(m.default_chars, k)

\* the except branch of predict_batch
FallbackTopK(m, k) == PadSpaces(Prefix(m.default_chars, k), k)

\* predict_batch(inputs, k): one joined string (a sequence of characters) per input
PredictBatch(m, inputs, k, seed) ==
    [i \in 1..Len(inputs) |->
        IF PredictRaises(m, inputs[i], k) THEN FallbackTopK(m, k)
        ELSE PredictTopK(m, inputs[i], k, seed)]

\* TableAfterGet indexing the defaultdict, which inserts an empty Counter
TableAfterIndex(cc, context) ==
    IF HasContext(cc, context) THEN cc
    ELSE Append(cc, [context |-> context, counts |-> <<>>])

\* the table after self.context_counts.get(context): dict.get inserts nothing
TableAfterGet(cc, context) == cc

RECURSIVE TableAfterLookups(_, _, _, _)
\* the table after predict_top_k's lookups for ctx_len, ..., limit
TableAfterLookups(m, cc, sequence, ctx_len) ==
    IF ctx_len > Min(m.ngram_order - 1, Len(sequence)) THEN cc
    ELSE TableAfterLookups(m,
                           TableAfterGet(cc, SubSeq(sequence, Len(sequence) - ctx_len + 1,
                                                    Len(sequence))),
                           sequence, ctx_len + 1)

\* the instance after predict_top_k(text, k): nothing else is assigned
ModelAfterPredict(m, text) ==
    IF ~IsStr(text) THEN m
    ELSE [m EXCEPT !.context_counts = TableAfterLookups(m, @, NormalizeText(text), 1)]

RECURSIVE ModelAfterBatch(_, _)
\* the instance after predict_batch(inputs, k): the except branch pads the
\* copy self.default_chars[:k], never the list itself
ModelAfterBatch(m, inputs) ==
    IF inputs = <<>> THEN m
    ELSE ModelAfterBatch(ModelAfterPredict(m, Head(inputs)), Tail(inputs))

----------------------------------------------------------------------------
(* Checkpoint codec *)

PayloadFields == {"ngram_order", "laplace_alpha", "max_chars_per_context",
                  "min_context_count", "max_contexts", "kn_discount", "context_counts",
                  "unigram", "continuation_counts", "total_bigram_types", "default_chars"}

\* SavePayload forgetting the discount
SavePayloadNoDiscount(m) ==
    [ngram_order           |-> m.ngram_order,
     laplace_alpha         |-> m.laplace_alpha,
     max_chars_per_context |-> m.max_chars_per_context,
     min_context_count     |-> m.min_context_count,
     max_contexts          |-> m.max_contexts,
     context_counts        |-> m.context_counts,
     unigram               |-> m.unigram,
     continuation_counts   |-> m.continuation_counts,
     total_bigram_types    |-> m.total_bigram_types,
     default_chars         |-> m.default_chars]

\* the payload dict built by save
SavePayload(m) ==
    [ngram_order           |-> m.ngram_order,
     laplace_alpha         |-> m.laplace_alpha,
     max_chars_per_context |-> m.max_chars_per_context,
     min_context_count     |-> m.min_context_count,
     max_contexts          |-> m.max_contexts,
     kn_discount           |-> m.kn_discount,
     context_counts        |-> m.context_counts,
     unigram               |-> m.unigram,
     continuation_counts   |-> m.continuation_counts,
     total_bigram_types    |-> m.total_bigram_types,
     default_chars         |-> m.default_chars]

\* payload.get(key, default)
PayloadGet(payload, key, default) ==
    IF key \in DOMAIN payload THEN payload[key] ELSE default

\* an older artifact: the payload without the fields in `absent`
OlderPayload(payload, absent) == [f \in (DOMAIN payload) \ absent |-> payload[f]]

\* LoadPayload taking the pruning script's defaults for the caps
LoadPayloadPruneDefaults(payload) ==
    LET fresh == Construct(PayloadGet(payload, "ngram_order", DefaultNgramOrder),
                           PayloadGet(payload, "laplace_alpha", DefaultLaplaceAlpha),
                           PayloadGet(payload, "max_chars_per_context", 48),
                           PayloadGet(payload, "min_context_count", 5),
                           PayloadGet(payload, "max_contexts", 300000),
                           PayloadGet(payload, "kn_discount", DefaultKnDiscount))
    IN  [fresh EXCEPT
            !.context_counts      = PayloadGet(payload, "context_counts", <<>>),
            !.unigram             = PayloadGet(payload, "unigram", <<>>),
            !.continuation_counts = PayloadGet(payload, "continuation_counts", <<>>),
            !.total_bigram_types  = PayloadGet(payload, "total_bigram_types", 0),
            !.default_chars       = PayloadGet(payload, "default_chars", fresh.default_chars)]

\* load: the instance rebuilt from a payload
LoadPayload(payload) ==
    LET fresh == Construct(PayloadGet(payload, "ngram_order", DefaultNgramOrder),
                           PayloadGet(payload, "laplace_alpha", DefaultLaplaceAlpha),
                           PayloadGet(payload, "max_chars_per_context",
                                      DefaultMaxCharsPerContext),
                           PayloadGet(payload, "min_context_count", DefaultMinContextCount),
                           PayloadGet(payload, "max_contexts", DefaultMaxContexts),
                           PayloadGet(payload, "kn_discount", DefaultKnDiscount))
    IN  [fresh EXCEPT
            !.context_counts      = PayloadGet(payload, "context_counts", <<>>),
            !.unigram             = PayloadGet(payload, "unigram", <<>>),
            !.continuation_counts = PayloadGet(payload, "continuation_counts", <<>>),
            !.total_bigram_types  = PayloadGet(payload, "total_bigram_types", 0),
            !.default_chars       = PayloadGet(payload, "default_chars", fresh.default_chars)]

----------------------------------------------------------------------------
(* Pruning script (scripts/prune_checkpoint.py) *)

\* the script's defaults: min_context_count, max_contexts, max_chars_per_context
PruneDefaults == <<5, 300000, 48>>

\* a list slice s[:n]: the first n items, or all but the last -n when n < 0
SliceTo(s, n) == IF n >= 0 THEN Prefix(s, n) ELSE SubSeq(s, 1, Len(s) + n)

\* PruneContextCounts keeping the first max_contexts entries in stored order
PruneContextCountsUnranked(cc, min_context_count, max_contexts, max_chars_per_context) ==
    LET kept   == SelectSeq(cc, LAMBDA e : e.counts # <<>>
                                           /\ ~(SumCounts(e.counts) < min_context_count))
        ranked == SliceTo(kept, max_contexts)
        cut    == [p \in 1..Len(ranked) |->
                     [context |-> ranked[p].context,
                      counts  |-> MostCommon(ranked[p].counts, max_chars_per_context)]]
    IN  SelectSeq(cut, LAMBDA e : e.counts # <<>>)

\* the table main() builds from payload["context_counts"]
PruneContextCounts(cc, min_context_count, max_contexts, max_chars_per_context) ==
    LET kept   == SelectSeq(cc, LAMBDA e : e.counts # <<>>
                                           /\ ~(SumCounts(e.counts) < min_context_count))
        order  == StableOrderDesc([i \in 1..Len(kept) |-> SumCounts(kept[i].counts)])
        sorted == [p \in 1..Len(kept) |-> kept[order[p]]]
        ranked == SliceTo(sorted, max_contexts)
        cut    == [p \in 1..Len(ranked) |->
                     [context |-> ranked[p].context,
                      counts  |-> MostCommon(ranked[p].counts, max_chars_per_context)]]
    IN  SelectSeq(cut, LAMBDA e : e.counts # <<>>)

\* the payload main() writes: the table and the three caps replaced
PrunePayload(payload, min_context_count, max_contexts, max_chars_per_context) ==
    LET trimmed == PruneContextCounts(PayloadGet(payload, "context_counts", <<>>),
                                      min_context_count, max_contexts,
                                      max_chars_per_context)
        written == [context_counts        |-> trimmed,
                    max_chars_per_context |-> max_chars_per_context,
                    min_context_count     |-> min_context_count,
                    max_contexts          |-> max_contexts]
    IN  [f \in (DOMAIN payload) \cup (DOMAIN written) |->
            IF f \in DOMAIN written THEN written[f] ELSE payload[f]]

----------------------------------------------------------------------------
(* Tuning harness (tune.py) *)

\* PARAM_GRID["ngram_order"]
GridNgramOrder == {5, 6, 7, 8}

\* PARAM_GRID["min_context_count"]
GridMinContextCount == {2, 3, 5}

\* PARAM_GRID["max_contexts"]
GridMaxContexts == {300000, 500000, 1000000}

\* FIXED["max_chars_per_context"]
FixedMaxCharsPerContext == 48

\* base_model = CharNGramLanguageModel(ngram_order=ngram_order, **FIXED);
\* base_model.fit(train_data)
BaseModel(ngram_order, train_data) ==
    FitModel(Construct(ngram_order, DefaultLaplaceAlpha, FixedMaxCharsPerContext,
                       DefaultMinContextCount, DefaultMaxContexts, DefaultKnDiscount),
             train_data)

\* base_model.raw_context_counts = copy.deepcopy(base_model.context_counts),
\* taken after fit has returned
RawContextCounts(base_model) == base_model.context_counts

\* apply_trim_params(base_model, min_context_count, max_contexts)
ApplyTrimParams(base_model, raw_context_counts, min_context_count, max_contexts) ==
    [base_model EXCEPT
        !.min_context_count = min_context_count,
        !.max_contexts      = max_contexts,
        !.context_counts    = TrimContextTables(raw_context_counts, min_context_count,
                                                max_contexts,
                                                base_model.max_chars_per_context),
        !.default_chars     = RefreshDefaultChars(base_model.unigram,
                                                  base_model.max_chars_per_context,
                                                  base_model.default_chars)]

----------------------------------------------------------------------------
(* Line loader (lm/data_io.py), CSE447_MAX_TRAIN_LINES and                  *)
(* CSE447_BALANCED_BY_FILE unset. A file is [readable, lines]; opening an  *)
(* unreadable one raises OSError.                                          *)

RECURSIVE UsableLines(_)
\* the loop over one file's lines in load_text_lines
UsableLines(raw_lines) ==
    IF raw_lines = <<>> THEN <<>>
    ELSE LET text == NormalizeText(RStripNewline(Head(raw_lines)))
         IN  (IF text # <<>> THEN <<text>> ELSE <<>>) \o UsableLines(Tail(raw_lines))

RECURSIVE LoadTextLines(_)
\* load_text_lines(file_paths)
LoadTextLines(files) ==
    IF files = <<>> THEN <<>>
    ELSE (IF Head(files).readable THEN UsableLines(Head(files).lines) ELSE <<>>)
         \o LoadTextLines(Tail(files))

\* load_test_data(file_path) on a readable file
LoadTestData(raw_lines) ==
    [i \in 1..Len(raw_lines) |-> NormalizeText(RStripNewline(raw_lines[i]))]

----------------------------------------------------------------------------
(* Inputs of the model *)

TheCat == <<"t", "h", "e", " ", "c", "a", "t">>

TheDog == <<"t", "h", "e", " ", "d", "o", "g">>

TheBat == <<"t", "h", "e", " ", "b", "a", "t">>

ScenarioLines == <<TheCat, TheDog, TheBat>>

\* the prefix "the " of the prediction scenario
TheSpace == <<"t", "h", "e", " ">>

\* the sequences of raw lines handed to fit
TrainingSets ==
    {<<>>,
     ScenarioLines,
     << <<"a", "b">>, <<"a", "c">> >>,
     << <<"a", "\n", "b", " ", " ", "a">>, <<" ">> >>,
     << <<"b">>, <<"a">>, <<"a">> >>}

\* constructor arguments: order, alpha, max_chars, min_count, max_contexts, discount
Configs ==
    {<<3, DefaultLaplaceAlpha, DefaultMaxCharsPerContext, DefaultMinContextCount,
       DefaultMaxContexts, DefaultKnDiscount>>,
     <<2, DefaultLaplaceAlpha, 1, 2, DefaultMaxContexts, DefaultKnDiscount>>,
     <<3, DefaultLaplaceAlpha, 2, 1, 1, DefaultKnDiscount>>,
     <<2, <<1, 10>>, DefaultMaxCharsPerContext, 1, 0, <<1, 2>>>>,
     <<4, DefaultLaplaceAlpha, 1, 2, 2, DefaultKnDiscount>>}

\* the configurations MyProgram.train can build: it never passes kn_discount
TrainConfigs == {c \in Configs : c[6] = DefaultKnDiscount}

ConstructFrom(c) == Construct(c[1], c[2], c[3], c[4], c[5], c[6])

\* the process's string-hash seeds
HashSeeds == {0, 1}

\* the calls predict_top_k(text, k)
PredictCalls ==
    {<<<<>>, 5>>, <<<<>>, MaxK>>, <<TheSpace, 3>>, <<TheSpace, MaxK>>, <<<<"a">>, 1>>,
     <<<<"a", "\n">>, 3>>, <<NoneInput, 3>>}

\* the calls predict_batch(inputs, k)
BatchCalls ==
    {<<<<>>, 3>>, <<<<TheSpace, <<"a">>>>, 3>>, <<<<<<"a">>, NoneInput, TheSpace>>, 3>>,
     <<<<NoneInput, <<>>>>, MaxK>>}

\* the caps given to prune_checkpoint.py: min_context_count, max_contexts,
\* max_chars_per_context
PruneCaps == {PruneDefaults, <<1, 1, 1>>, <<1, 4, 64>>, <<1, 0, 64>>, <<3, -1, 2>>}

Unreadable == [readable |-> FALSE, lines |-> <<>>]

File(raw_lines) == [readable |-> TRUE, lines |-> raw_lines]

\* the training files resolve_training_files names
TrainFileSets ==
    {<<Unreadable>>,
     <<File(<< <<" ", "\n">>, <<"\n">> >>)>>,
     <<Unreadable, File(<<TheCat \o <<"\n">>, TheDog \o <<"\n">>, TheBat>>)>>,
     <<File(<< <<"a", "b", "\n">>, <<"\n">>, <<"a", "c", "\n">> >>)>>}

TestFiles == {<<>>, <<TheSpace \o <<"\n">>, <<"a", "\n">>>>, <<<<"\n">>, <<"a", "b">>>>}

----------------------------------------------------------------------------
(* State machine *)

\* the record of an operation, its fields at their idle values
Op(name) ==
    [op |-> name, text |-> <<>>, k |-> 0, inputs |-> <<>>, lines |-> <<>>,
     result |-> <<>>, raised |-> FALSE, raw |-> <<>>, wrote |-> FALSE, absent |-> {},
     caps |-> <<>>]

NoSave == [model |-> NoCheckpoint, fits |-> 0, trained |-> <<>>]

Init ==
    /\ model \in {ConstructFrom(c) : c \in Configs}
    /\ checkpoint = NoCheckpoint
    /\ saved = NoSave
    /\ fits = 0
    /\ trained = <<>>
    /\ hashseed \in HashSeeds
    /\ last = Op("init")

\* model.fit(lines)
Fit(lines) ==
    /\ model' = FitModel(model, lines)
    /\ fits' = fits + 1
    /\ trained' = trained \o lines
    /\ last' = [Op("fit") EXCEPT !.lines = lines,
                                 !.raw = RawCounts(model, lines).context_counts]
    /\ UNCHANGED <<checkpoint, saved, hashseed>>

\* model.predict_top_k(text, k)
Predict(text, k) ==
    /\ last' = [Op("predict_top_k") EXCEPT
                    !.text = text, !.k = k,
                    !.raised = PredictRaises(model, text, k),
                    !.result = IF PredictRaises(model, text, k) THEN <<>>
                               ELSE PredictTopK(model, text, k, hashseed)]
    /\ model' = ModelAfterPredict(model, text)
    /\ UNCHANGED <<checkpoint, saved, fits, trained, hashseed>>

\* model.predict_batch(inputs, k)
Batch(inputs, k) ==
    /\ last' = [Op("predict_batch") EXCEPT
                    !.inputs = inputs, !.k = k,
                    !.result = PredictBatch(model, inputs, k, hashseed)]
    /\ model' = ModelAfterBatch(model, inputs)
    /\ UNCHANGED <<checkpoint, saved, fits, trained, hashseed>>

\* model.save(work_dir)
Save ==
    /\ checkpoint' = SavePayload(model)
    /\ saved' = [model |-> model, fits |-> fits, trained |-> trained]
    /\ last' = [Op("save") EXCEPT !.wrote = TRUE]
    /\ UNCHANGED <<model, fits, trained, hashseed>>

\* model = CharNGramLanguageModel.load(work_dir), the artifact lacking the fields
\* in `absent`; gzip.open raises when there is no checkpoint file
Load(absent) ==
    IF checkpoint = NoCheckpoint
    THEN /\ last' = [Op("load") EXCEPT !.raised = TRUE, !.absent = absent]
         /\ UNCHANGED <<model, checkpoint, saved, fits, trained, hashseed>>
    ELSE /\ model' = LoadPayload(OlderPayload(checkpoint, absent))
         /\ fits' = saved.fits
         /\ trained' = saved.trained
         /\ last' = [Op("load") EXCEPT !.absent = absent]
         /\ UNCHANGED <<checkpoint, saved, hashseed>>

\* MyProgram.train(work_dir, ...): construct, load_text_lines, fit, save
Train(c, files) ==
    LET train_data == LoadTextLines(files)
        fitted == FitModel(ConstructFrom(c), train_data)
    IN  /\ model' = fitted
        /\ checkpoint' = SavePayload(fitted)
        /\ saved' = [model |-> fitted, fits |-> 1, trained |-> train_data]
        /\ fits' = 1
        /\ trained' = train_data
        /\ last' = [Op("train") EXCEPT
                        !.lines = train_data, !.wrote = TRUE,
                        !.raw = RawCounts(ConstructFrom(c), train_data).context_counts]
        /\ UNCHANGED hashseed

\* MyProgram.test(work_dir, ...): load, load_test_data, predict_batch(k=3)
Test(raw_lines) ==
    IF checkpoint = NoCheckpoint
    THEN /\ last' = [Op("test") EXCEPT !.raised = TRUE]
         /\ UNCHANGED <<model, checkpoint, saved, fits, trained, hashseed>>
    ELSE LET loaded == LoadPayload(checkpoint)
             test_data == LoadTestData(raw_lines)
         IN  /\ model' = ModelAfterBatch(loaded, test_data)
             /\ fits' = saved.fits
             /\ trained' = saved.trained
             /\ last' = [Op("test") EXCEPT
                             !.inputs = test_data, !.k = 3,
                             !.result = PredictBatch(loaded, test_data, 3, hashseed)]
             /\ UNCHANGED <<checkpoint, saved, hashseed>>

\* python scripts/prune_checkpoint.py --input model.checkpoint --output
\* model.checkpoint with the caps given; gzip.open raises when there is no file
Prune(min_context_count, max_contexts, max_chars_per_context) ==
    IF checkpoint = NoCheckpoint
    THEN /\ last' = [Op("prune") EXCEPT
                         !.raised = TRUE,
                         !.caps = <<min_context_count, max_contexts, max_chars_per_context>>]
         /\ UNCHANGED <<model, checkpoint, saved, fits, trained, hashseed>>
    ELSE /\ checkpoint' = PrunePayload(checkpoint, min_context_count, max_contexts,
                                       max_chars_per_context)
         /\ last' = [Op("prune") EXCEPT
                         !.raw = checkpoint.context_counts, !.wrote = TRUE,
                         !.caps = <<min_context_count, max_contexts, max_chars_per_context>>]
         /\ UNCHANGED <<model, saved, fits, trained, hashseed>>

\* tune.py main(): the training of one ngram_order of the grid
TuneFit(ngram_order, files) ==
    LET train_data == LoadTextLines(files)
        base_model == BaseModel(ngram_order, train_data)
    IN  /\ model' = base_model
        /\ fits' = 1
        /\ trained' = train_data
        /\ last' = [Op("tune_fit") EXCEPT
                        !.lines = train_data, !.raw = RawContextCounts(base_model)]
        /\ UNCHANGED <<checkpoint, saved, hashseed>>

\* tune.py main(): m = apply_trim_params(base_model, min_cc, max_ctx) for one
\* combination of the grid; m is the result, base_model stays
TuneApply(min_context_count, max_contexts) ==
    /\ last.op \in {"tune_fit", "tune_apply"}
    /\ last' = [Op("tune_apply") EXCEPT
                    !.lines = last.lines, !.raw = last.raw,
                    !.caps = <<min_context_count, max_contexts>>,
                    !.result = ApplyTrimParams(model, last.raw, min_context_count,
                                               max_contexts)]
    /\ UNCHANGED <<model, checkpoint, saved, fits, trained, hashseed>>

FitStep == fits < MaxFits /\ \E lines \in TrainingSets : Fit(lines)

RefitStep == fits < MaxRefits /\ \E lines \in TrainingSets : Fit(lines)

PredictStep == \E call \in PredictCalls : Predict(call[1], call[2])

BatchStep == \E call \in BatchCalls : Batch(call[1], call[2])

LoadStep == Load({})

LoadOlderStep == \E absent \in SUBSET PayloadFields : Load(absent)

TrainStep == \E c \in TrainConfigs, files \in TrainFileSets : Train(c, files)

TestStep == \E raw_lines \in TestFiles : Test(raw_lines)

TuneFitStep ==
    \E ngram_order \in GridNgramOrder, files \in TrainFileSets : TuneFit(ngram_order, files)

TuneApplyStep ==
    \E min_cc \in GridMinContextCount, max_ctx \in GridMaxContexts :
        TuneApply(min_cc, max_ctx)

PruneStep == \E cap \in PruneCaps : Prune(cap[1], cap[2], cap[3])

Next ==
    \/ FitStep
    \/ PredictStep
    \/ BatchStep
    \/ Save
    \/ LoadStep

\* a session with the library: construct, fit, predict, save, load
Spec == Init /\ [][Next]_vars

NextDriver ==
    \/ TrainStep
    \/ TestStep

\* runs of the driver, python myprogram.py train | test, on one work_dir
SpecDriver == Init /\ [][NextDriver]_vars

\* a session that fits a fresh instance once, saves it, and loads the artifact
\* as any older version of the format would have written it
NextLoad ==
    \/ (fits = 0 /\ checkpoint = NoCheckpoint /\ FitStep)
    \/ (checkpoint = NoCheckpoint /\ Save)
    \/ (last.op = "save" /\ LoadOlderStep)

SpecLoad == Init /\ [][NextLoad]_vars

NextRefit == RefitStep

\* successive fit calls on one instance
SpecRefit == Init /\ [][NextRefit]_vars

NextTune ==
    \/ (last.op = "init" /\ TuneFitStep)
    \/ TuneApplyStep

\* a run of tune.py: one training per ngram_order, then the grid of caps
SpecTune == Init /\ [][NextTune]_vars

NextPrune ==
    \/ (checkpoint = NoCheckpoint /\ FitStep)
    \/ (checkpoint = NoCheckpoint /\ Save)
    \/ PruneStep
    \/ LoadStep

\* a session that fits, saves once, prunes the checkpoint and loads it back
SpecPrune == Init /\ [][NextPrune]_vars

----------------------------------------------------------------------------
(* Vocabulary of the properties *)

CounterAsMap(counter) == {<<counter[i].char, counter[i].count>> : i \in 1..Len(counter)}

\* a context table as a mapping: its contexts, their next-characters, their counts
TableAsMap(cc) == {<<cc[i].context, CounterAsMap(cc[i].counts)>> : i \in 1..Len(cc)}

Distinct(s) == \A i, j \in 1..Len(s) : i # j => s[i] # s[j]

NormalizedLines(lines) == [i \in 1..Len(lines) |-> NormalizeText(lines[i])]

\* the positions <<line, p>> of the normalized lines at which context is
\* immediately followed, within the line, by a character
Followed(lines, context) ==
    LET norm == NormalizedLines(lines)
        n == Len(context)
    IN  {ip \in UNION {{<<i, q>> : q \in (n + 1)..Len(norm[i])} : i \in 1..Len(norm)} :
            SubSeq(norm[ip[1]], ip[2] - n, ip[2] - 1) = context}

\* the number of those positions that hold character c
Occurrences(lines, context, c) ==
    LET norm == NormalizedLines(lines)
    IN  Cardinality({ip \in Followed(lines, context) : norm[ip[1]][ip[2]] = c})

\* the contexts of length 1..longest that are followed by a character
ContextsOf(lines, longest) ==
    LET norm == NormalizedLines(lines)
    IN  UNION {{SubSeq(norm[pr[1]], q - pr[2], q - 1) :
                    q \in (pr[2] + 1)..Len(norm[pr[1]])} :
               pr \in (1..Len(norm)) \X (1..longest)}

CharsOf(lines) == UNION {Range(NormalizeText(lines[i])) : i \in 1..Len(lines)}

\* the model was built by one fit on a fresh instance
FittedOnce == fits = 1 /\ last.op = "fit"

DefaultCaps(m) ==
    /\ m.max_chars_per_context = 64
    /\ m.min_context_count = 3
    /\ m.max_contexts = 1000000

\* the instance holds no training data
NoTrainingData(m) ==
    m.unigram = <<>> /\ m.continuation_counts = <<>> /\ m.context_counts = <<>>

Predicted == last.op = "predict_top_k" /\ ~last.raised

\* the distinct non-terminator characters the ranked candidates and the
\* fallback list supply for the last prediction
Supply ==
    (KeySet(FinalScores(model, last.text, hashseed).items) \cup Range(model.default_chars))
        \ LineTerminators

\* caps equal to or looser than the instance's own
LooserCaps(m) ==
    {cap \in {m.min_context_count - 1, m.min_context_count}
             \X {m.max_contexts, m.max_contexts + 1, 0}
             \X {m.max_chars_per_context, m.max_chars_per_context + 1} :
        m.max_contexts > 0 \/ cap[2] <= 0}

----------------------------------------------------------------------------
(* C1: predict_top_k output shape *)

\* C1 as claimed: predict_top_k(prefix, k) returns exactly k characters,
\* pairwise distinct and none a line terminator, padding included.
C1_ExactlyKDistinct ==
    Predicted =>
        /\ Len(last.result) = last.k
        /\ Distinct(last.result)
        /\ Range(last.result) \cap LineTerminators = {}

\* C1 as amended: predict_top_k(prefix, k) returns exactly k characters, none a
\* line terminator; the first min(k, n) are pairwise distinct, n being the
\* number of distinct characters the ranked candidates and the fallback list
\* supply, and every position after the n-th is a padding space.
C1_OutputShape ==
    Predicted =>
        LET n == Cardinality(Supply)
        IN  /\ Len(last.result) = last.k
            /\ Range(last.result) \cap LineTerminators = {}
            /\ Distinct(Prefix(last.result, n))
            /\ \A i \in (n + 1)..last.k : last.result[i] = " "

\* a prediction that had to be padded, and repeats the space
C1_Witness ==
    /\ Predicted
    /\ Cardinality(Supply) < last.k
    /\ last.result[last.k] = " "
    /\ ~Distinct(last.result)

----------------------------------------------------------------------------
(* C2: trimming is idempotent *)

\* C2 as claimed: trimming the instance's already-trimmed table again, with
\* the same or looser caps, leaves its contexts, next-characters and counts
\* unchanged.
C2_TrimIdempotent ==
    fits >= 1 =>
        \A cap \in LooserCaps(model) :
            TableAsMap(TrimContextTables(model.context_counts, cap[1], cap[2], cap[3]))
                = TableAsMap(model.context_counts)

----------------------------------------------------------------------------
(* C3: cap invariants after trimming *)

\* C3 as claimed: after fit with max_contexts > 0 the table has at most
\* max_contexts entries, every entry stores at most max_chars_per_context
\* next-characters, and the counts stored for every surviving context sum to
\* at least min_context_count.
C3_CapInvariants ==
    (last.op = "fit" /\ model.max_contexts > 0) =>
        /\ Len(model.context_counts) <= model.max_contexts
        /\ \A i \in 1..Len(model.context_counts) :
              /\ Len(model.context_counts[i].counts) <= model.max_chars_per_context
              /\ SumCounts(model.context_counts[i].counts) >= model.min_context_count

----------------------------------------------------------------------------
(* C4: save / load round trip *)

\* C4: the instance load rebuilds from what save wrote has the hyperparameters,
\* the three tables, the distinct-pair total and the fallback list of the
\* instance that was saved, and predicts what that instance predicts.
C4_RoundTrip ==
    (last.op = "load" /\ ~last.raised) =>
        /\ \A f \in PayloadFields : model[f] = saved.model[f]
        /\ \A call \in PredictCalls :
              IsStr(call[1]) =>
                  PredictTopK(model, call[1], call[2], hashseed)
                      = PredictTopK(saved.model, call[1], call[2], hashseed)

\* a fitted instance with non-default hyperparameters came back from its checkpoint
C4_Witness ==
    /\ last.op = "load" /\ ~last.raised
    /\ model.context_counts # <<>>
    /\ model.kn_discount # <<3, 4>>
    /\ model.default_chars # DEFAULT_CHARS

----------------------------------------------------------------------------
(* C5: the prediction scenario *)

\* C5 as claimed: on the order-3 model fitted on "the cat", "the dog",
\* "the bat", predict_top_k("the ", 3) returns three distinct characters whose
\* set is {c, d, b}.
C5_ScenarioPrediction ==
    (/\ Predicted /\ last.text = TheSpace /\ last.k = 3
     /\ fits = 1 /\ trained = ScenarioLines
     /\ model.ngram_order = 3 /\ DefaultCaps(model)) =>
        /\ Len(last.result) = 3
        /\ Distinct(last.result)
        /\ Range(last.result) = {"c", "d", "b"}

----------------------------------------------------------------------------
(* C6: predict_batch isolates a failing input *)

\* C6: predict_batch(inputs, k) returns one string of k characters per input,
\* in input order; the string of an input whose scoring raises is the first k
\* fallback symbols padded with spaces, and the string of every other input is
\* the concatenation of predict_top_k(input, k).
C6_BatchIsolation ==
    last.op = "predict_batch" =>
        /\ ~last.raised
        /\ Len(last.result) = Len(last.inputs)
        /\ \A i \in 1..Len(last.inputs) :
              /\ Len(last.result[i]) = last.k
              /\ IF IsStr(last.inputs[i])
                 THEN last.result[i] = PredictTopK(model, last.inputs[i], last.k, hashseed)
                 ELSE \A j \in 1..last.k :
                        last.result[i][j] = IF j <= Len(model.default_chars)
                                            THEN model.default_chars[j] ELSE " "

\* a batch whose middle input raised, between two inputs that were scored, on
\* a trained instance
C6_Witness ==
    /\ last.op = "predict_batch"
    /\ Len(last.inputs) = 3
    /\ ~IsStr(last.inputs[2]) /\ IsStr(last.inputs[1]) /\ IsStr(last.inputs[3])
    /\ model.context_counts # <<>>
    /\ last.result[1] # last.result[2]

----------------------------------------------------------------------------
(* C7: the counts fit stores *)

\* the general part of C7: unigram counts every character of the normalized
\* lines; every stored context has length 1..N-1 and every count stored for
\* it is the number of positions at which the character follows the context
C7_CountsExact ==
    /\ \A c \in CharsOf(trained) \cup KeySet(model.unigram) :
          Get(model.unigram, c) = Occurrences(trained, <<>>, c)
    /\ \A i \in 1..Len(model.context_counts) :
          LET e == model.context_counts[i]
          IN  /\ Len(e.context) \in 1..(model.ngram_order - 1)
              /\ \A j \in 1..Len(e.counts) :
                    e.counts[j].count = Occurrences(trained, e.context, e.counts[j].char)

\* C7 as claimed: after fit on a fresh instance the counts are exact, a
\* context whose total equals min_context_count is retained, and the scenario
\* lines with order 3 and default caps yield "he " -> {c:1, d:1, b:1} and
\* unigram['t'] >= 3.
C7_ScenarioEntryHeSpace ==
    FittedOnce =>
        /\ C7_CountsExact
        /\ \A context \in ContextsOf(trained, model.ngram_order - 1) :
              Cardinality(Followed(trained, context)) = model.min_context_count
                  => HasContext(model.context_counts, context)
        /\ (trained = ScenarioLines /\ model.ngram_order = 3 /\ DefaultCaps(model)) =>
              /\ CounterAsMap(GetContext(model.context_counts, <<"h", "e", " ">>))
                    = {<<"c", 1>>, <<"d", 1>>, <<"b", 1>>}
              /\ Get(model.unigram, "t") >= 3

\* C7 as amended: after fit on a fresh instance of order N the counts are
\* exact; a context whose total equals min_context_count passes the
\* minimum-count filter, so it is retained whenever max_chars_per_context >= 1
\* and the contexts passing the filter number at most max_contexts (or
\* max_contexts <= 0); the scenario lines with order 3 and default caps yield
\* the two-character entry "e " -> {c:1, d:1, b:1}, no entry "he " (a
\* three-character context), and unigram['t'] = 5 >= 3.
C7_FitCounts ==
    FittedOnce =>
        LET contexts == ContextsOf(trained, model.ngram_order - 1)
            passing  == {context \in contexts :
                            Cardinality(Followed(trained, context))
                                >= model.min_context_count}
        IN  /\ C7_CountsExact
            /\ \A context \in contexts :
                  (/\ Cardinality(Followed(trained, context)) = model.min_context_count
                   /\ model.max_chars_per_context >= 1
                   /\ \/ model.max_contexts <= 0
                      \/ Cardinality(passing) <= model.max_contexts)
                      => HasContext(model.context_counts, context)
            /\ (trained = ScenarioLines /\ model.ngram_order = 3 /\ DefaultCaps(model)) =>
                  /\ CounterAsMap(GetContext(model.context_counts, <<"e", " ">>))
                        = {<<"c", 1>>, <<"d", 1>>, <<"b", 1>>}
                  /\ ~HasContext(model.context_counts, <<"h", "e", " ">>)
                  /\ Get(model.unigram, "t") = 5

\* the scenario fit, whose context "e " has a total equal to min_context_count
C7_Witness ==
    /\ FittedOnce
    /\ trained = ScenarioLines /\ model.ngram_order = 3 /\ DefaultCaps(model)
    /\ Cardinality(Followed(trained, <<"e", " ">>)) = model.min_context_count
    /\ HasContext(model.context_counts, <<"e", " ">>)

----------------------------------------------------------------------------
(* C8: prediction without training data *)

\* C8: on an instance without training data predict_top_k(prefix, k) does not
\* raise for any text and returns the first k static fallback symbols in list
\* order, followed by spaces when the list is shorter than k.
C8_UntrainedFallback ==
    (last.op = "predict_top_k" /\ IsStr(last.text) /\ NoTrainingData(model)) =>
        /\ ~last.raised
        /\ Len(last.result) = last.k
        /\ \A i \in 1..last.k :
              last.result[i] = IF i <= Len(DEFAULT_CHARS) THEN DEFAULT_CHARS[i] ELSE " "

\* predict_top_k("", 5) on an instance fitted on no lines
C8_Witness ==
    /\ last.op = "predict_top_k" /\ last.text = <<>> /\ last.k = 5
    /\ NoTrainingData(model)
    /\ fits = 1
    /\ last.result = <<" ", ".", ",", "u3002", "u060C">>

----------------------------------------------------------------------------
(* C9: training without usable data *)

\* C9 as claimed: when the training files yield no usable line, train ends in
\* an error and writes no checkpoint.
C9_TrainFailsWithoutData ==
    (last.op = "train" /\ last.lines = <<>>) => (last.raised /\ ~last.wrote)

----------------------------------------------------------------------------
(* C10: loading an older artifact *)

\* C10: loading a payload that lacks any subset of its fields does not fail;
\* every absent field takes its default and every present field the stored
\* value.
C10_LoadDefaults ==
    (last.op = "load" /\ checkpoint # NoCheckpoint) =>
        LET default == [ngram_order           |-> 6,
                        laplace_alpha         |-> <<1, 1>>,
                        max_chars_per_context |-> 64,
                        min_context_count     |-> 3,
                        max_contexts          |-> 1000000,
                        kn_discount           |-> <<3, 4>>,
                        context_counts        |-> <<>>,
                        unigram               |-> <<>>,
                        continuation_counts   |-> <<>>,
                        total_bigram_types    |-> 0,
                        default_chars         |-> DEFAULT_CHARS]
        IN  /\ ~last.raised
            /\ \A f \in PayloadFields :
                  model[f] = IF f \in last.absent THEN default[f] ELSE checkpoint[f]

\* an artifact of a fitted instance lacking its caps and its unigram table,
\* loaded with stored values that differ from the defaults
C10_Witness ==
    /\ last.op = "load" /\ checkpoint # NoCheckpoint
    /\ last.absent = {"min_context_count", "max_contexts", "unigram"}
    /\ checkpoint.min_context_count # 3
    /\ checkpoint.unigram # <<>>
    /\ model.ngram_order # 6
    /\ model.context_counts # <<>>

----------------------------------------------------------------------------
(* C11: pruning keeps the top contexts *)

\* C11: pruning a checkpoint with max_contexts = M > 0 leaves at most M
\* contexts, each of them a context of the original table, and no context that
\* passed the minimum-count filter and was dropped had an original total
\* strictly greater than the original total of a kept context.
C11_PruneKeepsTop ==
    (last.op = "prune" /\ ~last.raised /\ last.caps[2] > 0) =>
        LET before == last.raw
            after  == checkpoint.context_counts
            total(context) == SumCounts(GetContext(before, context))
            passed == {before[i].context : i \in {j \in 1..Len(before) :
                            SumCounts(before[j].counts) >= last.caps[1]}}
            kept   == {after[i].context : i \in 1..Len(after)}
        IN  /\ Len(after) <= last.caps[2]
            /\ kept \subseteq passed
            /\ \A d \in passed \ kept : \A c \in kept : ~(total(d) > total(c))

\* a prune that kept as many contexts as the cap allows and dropped one that
\* passed the filter and was stored before a kept context of greater total
C11_Witness ==
    /\ last.op = "prune" /\ ~last.raised /\ last.caps[2] > 0
    /\ Len(checkpoint.context_counts) = last.caps[2]
    /\ \E i, j \in 1..Len(last.raw) :
          /\ i < j
          /\ ~HasContext(checkpoint.context_counts, last.raw[i].context)
          /\ HasContext(checkpoint.context_counts, last.raw[j].context)
          /\ SumCounts(last.raw[i].counts) >= last.caps[1]
          /\ SumCounts(last.raw[i].counts) < SumCounts(last.raw[j].counts)

----------------------------------------------------------------------------
(* C13: the pruning script against the model's trimming *)

\* C13 as claimed: for every checkpoint and every caps, a non-positive
\* max_contexts included, the table prune_checkpoint writes is the table
\* _trim_context_tables produces from the same table with the same caps.
C13_PruneIsTrim ==
    (last.op = "prune" /\ ~last.raised) =>
        TableAsMap(checkpoint.context_counts)
            = TableAsMap(TrimContextTables(last.raw, last.caps[1], last.caps[2],
                                           last.caps[3]))

----------------------------------------------------------------------------
(* C16: continuation counts and the distinct-pair total *)

\* the distinct characters that immediately precede c within a normalized line
Predecessors(lines, c) == {p \in CharsOf(lines) : Occurrences(lines, <<p>>, c) > 0}

\* the distinct (prev-char, next-char) pairs of the normalized lines
Pairs(lines) ==
    {pair \in CharsOf(lines) \X CharsOf(lines) :
        Occurrences(lines, <<pair[1]>>, pair[2]) > 0}

\* C16: after fit on a fresh instance continuation_counts[c] is the number of
\* distinct characters that immediately precede c within a line, and the sum
\* of the continuation counts is total_bigram_types, the number of distinct
\* pairs; the checkpoint written by save, and rewritten by pruning, and the
\* instance loaded from it keep the counts and the equality.
C16_ContinuationCounts ==
    /\ fits = 1 =>
          /\ \A c \in CharsOf(trained) \cup KeySet(model.continuation_counts) :
                Get(model.continuation_counts, c) = Cardinality(Predecessors(trained, c))
          /\ model.total_bigram_types = Cardinality(Pairs(trained))
          /\ SumCounts(model.continuation_counts) = model.total_bigram_types
    /\ (checkpoint # NoCheckpoint /\ saved.fits = 1) =>
          /\ CounterAsMap(checkpoint.continuation_counts)
                = CounterAsMap(saved.model.continuation_counts)
          /\ checkpoint.total_bigram_types = saved.model.total_bigram_types
          /\ SumCounts(checkpoint.continuation_counts) = checkpoint.total_bigram_types

\* an instance loaded from a checkpoint that pruning shrank, whose lines
\* repeat a pair and give a character two distinct predecessors
C16_Witness ==
    /\ last.op = "load" /\ ~last.raised /\ fits = 1
    /\ Len(checkpoint.context_counts) < Len(saved.model.context_counts)
    /\ model.total_bigram_types > 0
    /\ SumCounts(model.unigram) > model.total_bigram_types + Len(trained)
    /\ \E i \in 1..Len(model.continuation_counts) : model.continuation_counts[i].count >= 2

----------------------------------------------------------------------------
(* C12: monotonic ranking *)

\* the position of the first occurrence of character c in sequence s
FirstIndex(s, c) == CHOOSE i \in 1..Len(s) : s[i] = c /\ \A j \in 1..(i - 1) : s[j] # c

\* C12: if A and B are both in the result of predict_top_k(prefix, k) as
\* ranked candidates and A's final blended score is strictly greater than
\* B's, then A appears before B.
C12_MonotonicRanking ==
    Predicted =>
        LET scores == FinalScores(model, last.text, hashseed)
            ranked == Range(last.result) \cap KeySet(scores.items)
        IN  \A A, B \in ranked :
                Get(scores.items, A) > Get(scores.items, B)
                    => FirstIndex(last.result, A) < FirstIndex(last.result, B)

\* a prediction on a trained instance that blended a stored context, whose
\* result holds two ranked candidates of different score, the greater one
\* stored after the lesser in the order-0 table
C12_Witness ==
    /\ Predicted
    /\ FinalScores(model, last.text, hashseed) # KnUnigramScores(model)
    /\ LET scores == FinalScores(model, last.text, hashseed)
           ranked == Range(last.result) \cap KeySet(scores.items)
       IN  \E A, B \in ranked :
              /\ Get(scores.items, A) > Get(scores.items, B)
              /\ \E i, j \in 1..Len(scores.items) :
                    i > j /\ scores.items[i].char = A /\ scores.items[j].char = B

----------------------------------------------------------------------------
(* C15: predictions are read-only *)

\* C15: a call of predict_top_k or predict_batch, whether or not an input
\* raises or a context is absent from the table, leaves every field of the
\* instance as it was, and the same call on the instance it leaves returns the
\* same result.
C15_PredictReadOnly ==
    [][/\ last'.op \in {"predict_top_k", "predict_batch"} => model' = model
       /\ (last'.op = "predict_top_k" /\ ~last'.raised) =>
              last'.result = PredictTopK(model', last'.text, last'.k, hashseed')
       /\ last'.op = "predict_batch" =>
              last'.result = PredictBatch(model', last'.inputs, last'.k, hashseed')]_vars

\* a batch on a trained instance with an input that raised and an input whose
\* last character is not a stored context
C15_Witness ==
    /\ last.op = "predict_batch"
    /\ model.context_counts # <<>>
    /\ \E i \in 1..Len(last.inputs) : ~IsStr(last.inputs[i])
    /\ \E i \in 1..Len(last.inputs) :
          /\ IsStr(last.inputs[i])
          /\ NormalizeText(last.inputs[i]) # <<>>
          /\ LET sequence == NormalizeText(last.inputs[i])
             IN  ~HasContext(model.context_counts, <<sequence[Len(sequence)]>>)

----------------------------------------------------------------------------
(* C18: ranking by the order-0 score alone *)

\* no trailing context of the normalized text, of length 1..min(N-1, length),
\* has a stored entry
NoStoredContext(m, text) ==
    LET sequence == NormalizeText(text)
    IN  \A n \in 1..Min(m.ngram_order - 1, Len(sequence)) :
            ~HasContext(m.context_counts,
                        SubSeq(sequence, Len(sequence) - n + 1, Len(sequence)))

\* C18: for a prefix without a stored trailing context the final scores are
\* the order-0 scores, (continuation_count[c] + alpha) / (total_distinct_pairs
\* + alpha * |continuation vocabulary|) when a pair was observed and otherwise
\* (unigram_count[c] + alpha) / (total_unigram_tokens + alpha * |unigram
\* vocabulary|), and predict_top_k ranks by them alone: the result starts with
\* the min(k, |vocabulary|) characters of highest score, in descending order.
C18_OrderZeroRanking ==
    (Predicted /\ NoStoredContext(model, last.text)) =>
        LET an     == model.laplace_alpha[1]
            ad     == model.laplace_alpha[2]
            table  == IF model.total_bigram_types > 0 THEN model.continuation_counts
                      ELSE model.unigram
            mass   == IF model.total_bigram_types > 0 THEN model.total_bigram_types
                      ELSE SumCounts(model.unigram)
            vocab  == KeySet(table)
            num(c) == Get(table, c) * ad + an
            den    == mass * ad + an * Cardinality(vocab)
            scores == FinalScores(model, last.text, hashseed)
            n      == Min(last.k, Cardinality(vocab))
            top    == {last.result[i] : i \in 1..n}
        IN  /\ KeySet(scores.items) = vocab
            /\ \A c \in vocab : Get(scores.items, c) * den = num(c) * scores.den
            /\ top \subseteq vocab
            /\ Cardinality(top) = n
            /\ \A i, j \in 1..n : i < j => num(last.result[i]) >= num(last.result[j])
            /\ \A c \in vocab \ top : \A d \in top : num(c) <= num(d)

\* a prediction of three characters on a trained instance with observed pairs
\* and unequal continuation counts, for a non-empty prefix without a stored
\* context
C18_Witness ==
    /\ Predicted /\ NoStoredContext(model, last.text)
    /\ NormalizeText(last.text) # <<>>
    /\ last.k = 3
    /\ model.context_counts # <<>>
    /\ model.total_bigram_types > 0
    /\ \E i, j \in 1..Len(model.continuation_counts) :
          model.continuation_counts[i].count # model.continuation_counts[j].count

----------------------------------------------------------------------------
(* C14: the tuning harness's re-trim against retraining *)

\* C14 as claimed: apply_trim_params(base_model, min_context_count,
\* max_contexts) yields the context table of a fresh model constructed with
\* those two caps and fitted on the same lines.
C14_RetrimIsRetrain ==
    last.op = "tune_apply" =>
        TableAsMap(last.result.context_counts)
            = TableAsMap(FitModel(Construct(model.ngram_order, DefaultLaplaceAlpha,
                                            FixedMaxCharsPerContext, last.caps[1],
                                            last.caps[2], DefaultKnDiscount),
                                  trained).context_counts)

----------------------------------------------------------------------------
(* C17: the fallback symbol list after fit *)

\* C17: after a fit that leaves the unigram table non-empty the fallback list
\* has no duplicate, holds every static constant and no line terminator, and
\* begins with the min(max_chars_per_context, |unigram vocabulary|) most
\* frequent unigram characters in descending count order; after a fit that
\* leaves the unigram table empty the list is as it was.
C17_RefreshedDefaults ==
    [][last'.op = "fit" =>
        IF model'.unigram = <<>> THEN model'.default_chars = model.default_chars
        ELSE LET d     == model'.default_chars
                 vocab == KeySet(model'.unigram)
                 n     == Max(0, Min(model'.max_chars_per_context, Cardinality(vocab)))
                 top   == {d[i] : i \in 1..n}
                 count(c) == Get(model'.unigram, c)
             IN  /\ Distinct(d)
                 /\ Range(DEFAULT_CHARS) \subseteq Range(d)
                 /\ Range(d) \cap LineTerminators = {}
                 /\ Len(d) >= n
                 /\ top \subseteq vocab
                 /\ \A i, j \in 1..n : i < j => count(d[i]) >= count(d[j])
                 /\ \A c \in vocab \ top : \A t \in top : count(c) <= count(t)]_vars

\* a second fit on an instance that keeps fewer characters than its
\* vocabulary, whose list still holds a character an earlier fit put first
C17_Witness ==
    /\ last.op = "fit" /\ fits = 2
    /\ model.unigram # <<>>
    /\ model.max_chars_per_context < Len(model.unigram)
    /\ Len(model.default_chars) > Len(DEFAULT_CHARS) + model.max_chars_per_context
    /\ " " \in KeySet(model.unigram)

----------------------------------------------------------------------------
(* C19: the tables after successive fits *)

\* C19 as claimed: after any number of successive fit calls the continuation
\* counts sum to total_bigram_types, and the tables are those of a fresh model
\* with the same hyperparameters fitted once on all the lines passed so far.
C19_RefitInvariants ==
    last.op = "fit" =>
        LET once == FitModel(Construct(model.ngram_order, model.laplace_alpha,
                                       model.max_chars_per_context,
                                       model.min_context_count, model.max_contexts,
                                       model.kn_discount),
                             trained)
        IN  /\ SumCounts(model.continuation_counts) = model.total_bigram_types
            /\ TableAsMap(model.context_counts) = TableAsMap(once.context_counts)
            /\ CounterAsMap(model.unigram) = CounterAsMap(once.unigram)
            /\ CounterAsMap(model.continuation_counts)
                  = CounterAsMap(once.continuation_counts)
            /\ model.total_bigram_types = once.total_bigram_types

====
